---- MODULE Spec2Model ----
(***************************************************************************)
(* A model of fuse.Connection (connection.go): the reader loop ReadOp, the *)
(* cancellation registry cancelFuncs guarded by mu, and the reply closure  *)
(* sendReply that handlers run concurrently with the reader.               *)
(*                                                                         *)
(* Threads: one reader (ReadOp must not be called concurrently) and one    *)
(* handler per op returned to the caller.  In Spec every section of code   *)
(* that runs under c.mu is one atomic step; WriteToKernel and Destroy are  *)
(* steps of their own, so that a reply commit interleaves with the reader  *)
(* and with other reply commits.                                           *)
(*                                                                         *)
(* Four more specifications extend Spec: SpecMu takes handleInterrupt and  *)
(* finishOp statement by statement with the mutex explicit; SpecParent     *)
(* adds the cancellation of the parent context; SpecReinvoke adds user     *)
(* code that invokes a reply closure again; SpecFS adds the sample file    *)
(* system forgetfs (samples/forgetfs/forget_fs.go) as the handler of the   *)
(* ops ReadOp returns.                                                     *)
(***************************************************************************)
EXTENDS Integers, Sequences, FiniteSets, TLC

\* ------------------------------------------------------------------ bounds
\* Number of frames the shim delivers in one run.
MaxFrames == 2
\* How often user code invokes one reply closure when it breaks the
\* single-use rule.
MaxInvocations == 2
\* Kernel request IDs ("unique") are drawn from 1..MaxUnique.
MaxUnique == 2

\* ------------------------------------------------------- program constants
\* The opcodes the core distinguishes; OpLookup stands for every opcode
\* that is converted to an op handed to user code.
OpLookup == "lookup"
OpForget == "forget"
OpStatFS == "statfs"
OpInterrupt == "interrupt"
Opcodes == {OpLookup, OpForget, OpStatFS, OpInterrupt}

Uniques == 1..MaxUnique
FrameIDs == 1..MaxFrames
\* Absent map entry / absent interrupt target.
NoEntry == 0
NoTarget == 0

VARIABLES
    frames,       \* the messages ReadMessage has returned, in read order
    nextOpID,     \* Connection.nextOpID
    cancelFuncs,  \* Connection.cancelFuncs: unique -> frame whose context
                  \* the recorded cancel function cancels (NoEntry: absent)
    rpc,          \* where the reader thread is in ReadOp
    lastErr,      \* what the last return of ReadOp carried
    returned,     \* frames whose op ReadOp returned to the caller, in order
    rp,           \* per frame: position in sendReply (0: not running)
    invoked,      \* per frame: how often the reply closure was invoked
    respErr,      \* per frame: the opErr of the last invocation
    writes,       \* per frame: results of the WriteToKernel calls for it
    sendErr,      \* per frame: what the last sendReply returned
    destroyed,    \* per frame: calls of m.Destroy
    fired,        \* per frame: calls of its cancel function, by caller
    cancelled,    \* frames whose op context is done (cancelled)
    aborted,      \* the panic that ended the process, if any
    abortFrame,   \* the frame whose processing panicked
    parentCancelled, \* Connection.parentCtx is done (cancelled)
    mu,           \* Connection.mu: the set of threads holding it
    hiFound,      \* handleInterrupt's local `cancel`: the frame it cancels
    fo,           \* per frame: position and local `cancel` in finishOp
    inodes,       \* forgetfs fsImpl.inodes: inode ID -> inode
    nextInodeID,  \* forgetfs fsImpl.nextInodeID
    fsResp        \* the last forgetfs call and what it responded

vars == <<frames, nextOpID, cancelFuncs, rpc, lastErr, returned, rp, invoked,
          respErr, writes, sendErr, destroyed, fired, cancelled, aborted,
          abortFrame, parentCancelled, mu, hiFound, fo, inodes, nextInodeID,
          fsResp>>

\* The state of the statement-by-statement model of the code under c.mu.
muVars == <<mu, hiFound, fo>>

\* ------------------------------------------------------------- forgetfs
\* The state of the sample file system forgetfs serving the connection.
fsVars == <<inodes, nextInodeID, fsResp>>

cannedID_Root == 1
cannedID_Foo == 2
cannedID_Bar == 3
cannedID_Next == 4
\* The zero InodeID: childID before the switch of LookUpInode sets it.
NoInode == 0

\* The inode IDs and names the kernel sends: the canned ones, and one that
\* was never issued.
InodeIDs == cannedID_Root..cannedID_Next
Names == {"foo", "bar", "baz"}

\* NewFileSystem: the root with lookup count 1, "foo" and "bar" with the
\* zero lookup count.
NewFileSystem ==
    (cannedID_Root :> [lookupCount |-> 1, attributes |-> "dir"]) @@
    (cannedID_Foo :> [lookupCount |-> 0, attributes |-> "file"]) @@
    (cannedID_Bar :> [lookupCount |-> 0, attributes |-> "dir"])

LookupCounts == [id \in DOMAIN inodes |-> inodes[id].lookupCount]

NoResp ==
    [op |-> "none", parent |-> NoInode, name |-> "", err |-> "none",
     child |-> NoInode, attributes |-> "none",
     before |-> [id \in DOMAIN NewFileSystem |->
                   NewFileSystem[id].lookupCount],
     after |-> [id \in DOMAIN NewFileSystem |->
                  NewFileSystem[id].lookupCount]]

\* The frame the reader is working on (m in ReadOp).
cur == Len(frames)

\* ------------------------------------------------------------ the kernel
\* The kernel holds a unique from the moment it sends a request that expects
\* a reply until the write of that reply has started.
KernelHolds(u) ==
    \E g \in 1..Len(frames) :
        /\ frames[g].unique = u
        /\ frames[g].opcode # OpForget
        /\ writes[g] = <<>>

\* --------------------------------------------------------- the registry
HasCancelFunc(fuseID) == cancelFuncs[fuseID] # NoEntry

\* Faulty variants of BeginOpRecords: forget is not exempted; interrupt,
\* which has no reply either, is exempted too.
BeginOpRecordsAll(opCode) == TRUE
BeginOpRecordsReplied(opCode) == opCode \notin {OpForget, OpInterrupt}
\* beginOp: a cancel function is recorded unless the opcode is forget.
BeginOpRecords(opCode) == opCode # OpForget

\* finishOp: the cancel function is looked up unless the opcode is forget.
FinishOpCleans(opCode) == opCode # OpForget

\* context.WithCancel's cancel function for frame f, called by `by`.
Cancel(f, by) ==
    /\ fired' = [fired EXCEPT ![f][by] = @ + 1]
    /\ cancelled' = cancelled \cup {f}

\* ---------------------------------------------------------- sendReply
\* Faulty variant of SendReplySteps: the reply is written before finishOp.
SendReplyWriteFirst == <<"WriteToKernel", "finishOp", "Destroy">>
\* The order of the effects of sendReply: finishOp, then WriteToKernel, and
\* the deferred m.Destroy when the closure returns.
SendReplySteps == <<"finishOp", "WriteToKernel", "Destroy">>

Done == Len(SendReplySteps) + 1
Running(f) == rp[f] \in 1..Len(SendReplySteps)
AtStep(f, s) == Running(f) /\ SendReplySteps[rp[f]] = s

\* ---------------------------------------------------------------- Init
Init ==
    /\ frames = <<>>
    /\ nextOpID = 0
    /\ cancelFuncs = [u \in Uniques |-> NoEntry]
    /\ rpc = "idle"
    /\ lastErr = "none"
    /\ returned = <<>>
    /\ rp = [f \in FrameIDs |-> 0]
    /\ invoked = [f \in FrameIDs |-> 0]
    /\ respErr = [f \in FrameIDs |-> "none"]
    /\ writes = [f \in FrameIDs |-> <<>>]
    /\ sendErr = [f \in FrameIDs |-> "none"]
    /\ destroyed = [f \in FrameIDs |-> 0]
    /\ fired = [f \in FrameIDs |-> [finishOp |-> 0, handleInterrupt |-> 0]]
    /\ cancelled = {}
    /\ aborted = "none"
    /\ abortFrame = 0
    /\ parentCancelled = FALSE
    /\ mu = {}
    /\ hiFound = NoEntry
    /\ fo = [f \in FrameIDs |-> [pc |-> "lookup", found |-> NoEntry]]
    /\ inodes = NewFileSystem
    /\ nextInodeID = cannedID_Next
    /\ fsResp = NoResp

Alive == aborted = "none"

\* ------------------------------------------------------------- ReadOp
\* c.wrapped.ReadMessage() returns a message; the op ID is allocated.
ReadMessage ==
    /\ Alive
    /\ rpc \in {"idle", "read"}
    /\ lastErr \notin {"EOF", "EIO"}
    /\ Len(frames) < MaxFrames
    /\ \E opc \in Opcodes, u \in Uniques, ok \in BOOLEAN :
       \E t \in IF opc = OpInterrupt THEN Uniques ELSE {NoTarget} :
          frames' = Append(frames,
                       [opcode |-> opc, unique |-> u, target |-> t,
                        convertible |-> ok,
                        early |-> opc # OpForget /\ KernelHolds(u)])
    \* c.nextOpID++ on a uint32: it is at most MaxFrames here, so no wrap.
    /\ nextOpID' = nextOpID + 1
    /\ rpc' = "beginOp"
    /\ UNCHANGED <<cancelFuncs, lastErr, returned, rp, invoked, respErr,
                   writes, sendErr, destroyed, fired, cancelled, aborted,
                   abortFrame>>
    /\ UNCHANGED parentCancelled
    /\ UNCHANGED muVars
    /\ UNCHANGED fsVars

\* The errors of c.wrapped.ReadMessage(): io.EOF when the kernel has closed
\* the connection, or an I/O error.
ReadMessageErrs == {"EOF", "EIO"}

\* Faulty variant of ReadOpErr: the error is wrapped, as Convert's is.
ReadOpErrWrapped(e) == "fuseshim.ReadMessage"
\* What ReadOp returns for an error e of ReadMessage: e itself.
ReadOpErr(e) == e

\* c.wrapped.ReadMessage() fails: ReadOp returns the error as it is.
ReadMessageError ==
    /\ Alive
    /\ rpc \in {"idle", "read"}
    /\ lastErr \notin {"EOF", "EIO"}
    /\ \E e \in ReadMessageErrs : lastErr' = ReadOpErr(e)
    /\ rpc' = "idle"
    /\ UNCHANGED <<frames, nextOpID, cancelFuncs, returned, rp, invoked,
                   respErr, writes, sendErr, destroyed, fired, cancelled,
                   aborted, abortFrame>>
    /\ UNCHANGED parentCancelled
    /\ UNCHANGED muVars
    /\ UNCHANGED fsVars

\* Faulty variant of RecordCancelFunc: an existing entry is overwritten.
RecordCancelFuncOverwrites(fuseID, f) ==
    /\ cancelFuncs' = [cancelFuncs EXCEPT ![fuseID] = f]
    /\ rpc' = "Convert"
    /\ UNCHANGED <<aborted, abortFrame>>
\* recordCancelFunc, under c.mu.
RecordCancelFunc(fuseID, f) ==
    IF HasCancelFunc(fuseID)
    THEN /\ aborted' = "AlreadyHaveCancelFunc"
         /\ abortFrame' = f
         /\ UNCHANGED <<cancelFuncs, rpc>>
    ELSE /\ cancelFuncs' = [cancelFuncs EXCEPT ![fuseID] = f]
         /\ rpc' = "Convert"
         /\ UNCHANGED <<aborted, abortFrame>>

\* Faulty variant of BeginOpCtxRoot: op contexts start from a fresh root.
BeginOpCtxBackground == "Background"
\* beginOp: the context every op's context starts from (ctx = c.parentCtx).
\* A forget op gets this context itself, every other op a child of it made
\* by context.WithCancel.
BeginOpCtxRoot == "parentCtx"

\* The context beginOp hands out follows c.parentCtx: it is done as soon
\* as the parent is, at creation if the parent is done already.
FollowsParent == BeginOpCtxRoot = "parentCtx"

\* opCtx := c.beginOp(m.Hdr.Opcode, m.Hdr.Unique).  The context is made
\* before recordCancelFunc is called.
BeginOp ==
    /\ Alive
    /\ rpc = "beginOp"
    /\ cancelled' = IF FollowsParent /\ parentCancelled
                    THEN cancelled \cup {cur} ELSE cancelled
    /\ IF BeginOpRecords(frames[cur].opcode)
       THEN mu = {} /\ RecordCancelFunc(frames[cur].unique, cur)
       ELSE /\ rpc' = "Convert"
            /\ UNCHANGED <<cancelFuncs, aborted, abortFrame>>
    /\ UNCHANGED <<frames, nextOpID, lastErr, returned, rp, invoked, respErr,
                   writes, sendErr, destroyed, fired, parentCancelled>>
    /\ UNCHANGED muVars
    /\ UNCHANGED fsVars

\* fuseops.Convert: what the frame converts to.  Frames the codec cannot
\* decode give an error; statfs and interrupt frames give the two internal
\* op types; every other frame gives an op for user code.
ConvertResult(m) ==
    IF ~m.convertible THEN "error"
    ELSE IF m.opcode = OpStatFS THEN "InternalStatFSOp"
    ELSE IF m.opcode = OpInterrupt THEN "InternalInterruptOp"
    ELSE "Op"

\* Faulty variants of Dispatch: one of the two internal cases is missing.
DispatchReturnsInterrupts(kind) ==
    IF kind = "InternalStatFSOp" THEN "Respond" ELSE "return"
DispatchReturnsStatFS(kind) ==
    IF kind = "InternalInterruptOp" THEN "handleInterrupt" ELSE "return"
\* The type switches of ReadOp on the converted op.
Dispatch(kind) ==
    IF kind = "InternalStatFSOp" THEN "Respond"
    ELSE IF kind = "InternalInterruptOp" THEN "handleInterrupt"
    ELSE "return"

\* The error op.Respond(nil) passes for a statfs op.
StatFSRespondErr == "nil"

\* op.Respond(e) of frame f's op: the reply closure sendReply is entered.
InvokeReply(f, e) ==
    /\ rp' = [rp EXCEPT ![f] = 1]
    /\ invoked' = [invoked EXCEPT ![f] = @ + 1]
    /\ respErr' = [respErr EXCEPT ![f] = e]

\* op, err = fuseops.Convert(...) and what ReadOp does with the result.
Convert ==
    /\ Alive
    /\ rpc = "Convert"
    /\ LET kind == ConvertResult(frames[cur]) IN
       IF kind = "error"
       THEN /\ lastErr' = "fuseops.Convert"
            /\ rpc' = "idle"
            /\ UNCHANGED <<returned, rp, invoked, respErr>>
       ELSE IF Dispatch(kind) = "Respond"
       THEN /\ InvokeReply(cur, StatFSRespondErr)
            /\ rpc' = "Respond"
            /\ UNCHANGED <<lastErr, returned>>
       ELSE IF Dispatch(kind) = "handleInterrupt"
       THEN /\ rpc' = "handleInterrupt"
            /\ UNCHANGED <<lastErr, returned, rp, invoked, respErr>>
       ELSE /\ returned' = Append(returned, cur)
            /\ lastErr' = "nil"
            /\ rpc' = "idle"
            /\ UNCHANGED <<rp, invoked, respErr>>
    /\ UNCHANGED <<frames, nextOpID, cancelFuncs, writes, sendErr, destroyed,
                   fired, cancelled, aborted, abortFrame>>
    /\ UNCHANGED parentCancelled
    /\ UNCHANGED muVars
    /\ UNCHANGED fsVars

\* Faulty variants of HandleInterruptBody: the cancel function is not
\* called; a missing entry is a panic, as it is in finishOp; the entry is
\* deleted after the call, as it is in finishOp.
HandleInterruptNeverCancels(fuseID) ==
    UNCHANGED <<cancelFuncs, fired, cancelled, aborted, abortFrame>>
HandleInterruptPanicsIfMissing(fuseID) ==
    IF HasCancelFunc(fuseID)
    THEN /\ Cancel(cancelFuncs[fuseID], "handleInterrupt")
         /\ UNCHANGED <<cancelFuncs, aborted, abortFrame>>
    ELSE /\ aborted' = "UnknownRequestID"
         /\ abortFrame' = cur
         /\ UNCHANGED <<cancelFuncs, fired, cancelled>>
HandleInterruptDeletes(fuseID) ==
    IF HasCancelFunc(fuseID)
    THEN /\ Cancel(cancelFuncs[fuseID], "handleInterrupt")
         /\ cancelFuncs' = [cancelFuncs EXCEPT ![fuseID] = NoEntry]
         /\ UNCHANGED <<aborted, abortFrame>>
    ELSE UNCHANGED <<cancelFuncs, fired, cancelled, aborted, abortFrame>>
\* handleInterrupt, under c.mu: the cancel function recorded for fuseID is
\* called if there is one; the entry stays in the map.
HandleInterruptBody(fuseID) ==
    IF HasCancelFunc(fuseID)
    THEN /\ Cancel(cancelFuncs[fuseID], "handleInterrupt")
         /\ UNCHANGED <<cancelFuncs, aborted, abortFrame>>
    ELSE UNCHANGED <<cancelFuncs, fired, cancelled, aborted, abortFrame>>

\* Faulty variant of InterruptTarget: the interrupt frame's own unique.
InterruptTargetOwnUnique(m) == m.unique
\* The ID handleInterrupt is called with: interruptOp.FuseID, the unique of
\* the request to interrupt.
InterruptTarget(m) == m.target

\* c.handleInterrupt(interruptOp.FuseID); continue
HandleInterrupt ==
    /\ Alive
    /\ rpc = "handleInterrupt"
    /\ HandleInterruptBody(InterruptTarget(frames[cur]))
    /\ rpc' = "read"
    /\ UNCHANGED <<frames, nextOpID, lastErr, returned, rp, invoked, respErr,
                   writes, sendErr, destroyed>>
    /\ UNCHANGED parentCancelled
    /\ UNCHANGED muVars
    /\ UNCHANGED fsVars

\* ------------------------------------------------------------ handlers
ReturnedSet == {returned[i] : i \in 1..Len(returned)}

\* User code calls Respond on an op it was handed; the reply closure is
\* single-use, and here user code keeps to that.
Respond(f) ==
    /\ Alive
    /\ f \in ReturnedSet
    /\ invoked[f] = 0
    /\ \E e \in {"nil", "err"} : InvokeReply(f, e)
    /\ UNCHANGED <<frames, nextOpID, cancelFuncs, rpc, lastErr, returned,
                   writes, sendErr, destroyed, fired, cancelled, aborted,
                   abortFrame>>
    /\ UNCHANGED parentCancelled
    /\ UNCHANGED muVars
    /\ UNCHANGED fsVars

\* Faulty variant of FinishOpEntry: the entry is deleted, cancel not called.
FinishOpDoesNotCancel(fuseID) ==
    /\ cancelFuncs' = [cancelFuncs EXCEPT ![fuseID] = NoEntry]
    /\ UNCHANGED <<fired, cancelled>>
\* What finishOp does to the entry it found: cancel(), then delete.
FinishOpEntry(fuseID) ==
    /\ Cancel(cancelFuncs[fuseID], "finishOp")
    /\ cancelFuncs' = [cancelFuncs EXCEPT ![fuseID] = NoEntry]

\* c.finishOp(m.Hdr.Opcode, m.Hdr.Unique), under c.mu.  A panic unwinds
\* through sendReply, whose deferred m.Destroy() runs.
FinishOp(f) ==
    /\ Alive
    /\ AtStep(f, "finishOp")
    /\ IF ~FinishOpCleans(frames[f].opcode)
       THEN /\ rp' = [rp EXCEPT ![f] = @ + 1]
            /\ UNCHANGED <<cancelFuncs, fired, cancelled, destroyed, aborted,
                           abortFrame>>
       ELSE IF ~HasCancelFunc(frames[f].unique)
       THEN /\ aborted' = "UnknownRequestID"
            /\ abortFrame' = f
            /\ destroyed' = [destroyed EXCEPT ![f] = @ + 1]
            /\ UNCHANGED <<cancelFuncs, fired, cancelled, rp>>
       ELSE /\ FinishOpEntry(frames[f].unique)
            /\ rp' = [rp EXCEPT ![f] = @ + 1]
            /\ UNCHANGED <<destroyed, aborted, abortFrame>>
    /\ UNCHANGED <<frames, nextOpID, rpc, lastErr, returned, invoked,
                   respErr, writes, sendErr>>
    /\ UNCHANGED parentCancelled
    /\ UNCHANGED muVars
    /\ UNCHANGED fsVars

StepIndex(s) == CHOOSE i \in 1..Len(SendReplySteps) : SendReplySteps[i] = s

\* Faulty variant of WriteToKernelErr: the write error is dropped.
WriteToKernelErrDropped(res) == "nil"
\* What sendReply returns after the write: nil, or the shim's error wrapped
\* as "WriteToKernel: %v".
WriteToKernelErr(res) == IF res = "ok" THEN "nil" ELSE "WriteToKernel"

\* err = c.wrapped.WriteToKernel(replyMsg); on an error the closure returns
\* at once, which leaves only the deferred Destroy.
WriteToKernel(f) ==
    /\ Alive
    /\ AtStep(f, "WriteToKernel")
    /\ \E res \in {"ok", "fail"} :
          /\ writes' = [writes EXCEPT ![f] = Append(@, res)]
          /\ sendErr' = [sendErr EXCEPT ![f] = WriteToKernelErr(res)]
          /\ rp' = [rp EXCEPT ![f] =
                      IF res = "ok" THEN @ + 1 ELSE StepIndex("Destroy")]
    /\ UNCHANGED <<frames, nextOpID, cancelFuncs, rpc, lastErr, returned,
                   invoked, respErr, destroyed, fired, cancelled, aborted,
                   abortFrame>>
    /\ UNCHANGED parentCancelled
    /\ UNCHANGED muVars
    /\ UNCHANGED fsVars

\* defer m.Destroy(), and sendReply returns.  For a statfs op the closure
\* ran on the reader thread, which goes on to the next frame.
Destroy(f) ==
    /\ Alive
    /\ AtStep(f, "Destroy")
    /\ destroyed' = [destroyed EXCEPT ![f] = @ + 1]
    /\ rp' = [rp EXCEPT ![f] = Done]
    /\ rpc' = IF rpc = "Respond" /\ f = cur THEN "read" ELSE rpc
    /\ UNCHANGED <<frames, nextOpID, cancelFuncs, lastErr, returned, invoked,
                   respErr, writes, sendErr, fired, cancelled, aborted,
                   abortFrame>>
    /\ UNCHANGED parentCancelled
    /\ UNCHANGED muVars
    /\ UNCHANGED fsVars

\* beginOp has run for frame f: its op context exists.
Begun(f) == f < cur \/ (f = cur /\ rpc # "beginOp")

\* The owner of the parent context cancels it; every context derived from
\* it is done from then on.
CancelParent ==
    /\ Alive
    /\ ~parentCancelled
    /\ parentCancelled' = TRUE
    /\ cancelled' = IF FollowsParent
                    THEN cancelled \cup {f \in 1..Len(frames) : Begun(f)}
                    ELSE cancelled
    /\ UNCHANGED <<frames, nextOpID, cancelFuncs, rpc, lastErr, returned, rp,
                   invoked, respErr, writes, sendErr, destroyed, fired,
                   aborted, abortFrame, muVars,
                   fsVars>>

Next ==
    \/ ReadMessage
    \/ ReadMessageError
    \/ BeginOp
    \/ Convert
    \/ HandleInterrupt
    \/ \E f \in FrameIDs : Respond(f)
    \/ \E f \in FrameIDs : FinishOp(f)
    \/ \E f \in FrameIDs : WriteToKernel(f)
    \/ \E f \in FrameIDs : Destroy(f)

Spec == Init /\ [][Next]_vars

\* ------------------------------------------- the code under c.mu, by statement
\* The threads that take c.mu: the reader and the handler of frame f.
Reader == <<"reader", 0>>
Handler(f) == <<"handler", f>>

\* Faulty variant of MuLock: the lock is taken whoever holds it.
MuLockUnguarded(who) == mu' = mu \cup {who}
\* c.mu.Lock(): blocks until no thread holds the mutex.
MuLock(who) == mu = {} /\ mu' = {who}
\* defer c.mu.Unlock()
MuUnlock(who) == mu' = mu \ {who}

\* handleInterrupt: c.mu.Lock(); cancel, ok := c.cancelFuncs[fuseID]
HandleInterruptLookup ==
    /\ Alive
    /\ rpc = "handleInterrupt"
    /\ MuLock(Reader)
    /\ hiFound' = cancelFuncs[InterruptTarget(frames[cur])]
    /\ rpc' = "handleInterrupt.cancel"
    /\ UNCHANGED <<frames, nextOpID, cancelFuncs, lastErr, returned, rp,
                   invoked, respErr, writes, sendErr, destroyed, fired,
                   cancelled, aborted, abortFrame, parentCancelled, fo,
                   fsVars>>

\* handleInterrupt: if !ok { return }; cancel(); the deferred Unlock; and
\* ReadOp continues.
HandleInterruptCancel ==
    /\ Alive
    /\ rpc = "handleInterrupt.cancel"
    /\ IF hiFound # NoEntry
       THEN Cancel(hiFound, "handleInterrupt")
       ELSE UNCHANGED <<fired, cancelled>>
    /\ MuUnlock(Reader)
    /\ hiFound' = NoEntry
    /\ rpc' = "read"
    /\ UNCHANGED <<frames, nextOpID, cancelFuncs, lastErr, returned, rp,
                   invoked, respErr, writes, sendErr, destroyed, aborted,
                   abortFrame, parentCancelled, fo,
                   fsVars>>

\* finishOp: c.mu.Lock(); for a non-forget op cancel, ok :=
\* c.cancelFuncs[fuseID], and the panic if !ok.
FinishOpLookup(f) ==
    /\ Alive
    /\ AtStep(f, "finishOp")
    /\ fo[f].pc = "lookup"
    /\ MuLock(Handler(f))
    /\ IF ~FinishOpCleans(frames[f].opcode)
       THEN /\ fo' = [fo EXCEPT ![f].pc = "unlock"]
            /\ UNCHANGED <<destroyed, aborted, abortFrame>>
       ELSE IF ~HasCancelFunc(frames[f].unique)
       THEN /\ aborted' = "UnknownRequestID"
            /\ abortFrame' = f
            /\ destroyed' = [destroyed EXCEPT ![f] = @ + 1]
            /\ UNCHANGED fo
       ELSE /\ fo' = [fo EXCEPT ![f] =
                        [pc |-> "cancel",
                         found |-> cancelFuncs[frames[f].unique]]]
            /\ UNCHANGED <<destroyed, aborted, abortFrame>>
    /\ UNCHANGED <<frames, nextOpID, cancelFuncs, rpc, lastErr, returned, rp,
                   invoked, respErr, writes, sendErr, fired, cancelled,
                   parentCancelled, hiFound,
                   fsVars>>

\* finishOp: cancel()
FinishOpCancel(f) ==
    /\ Alive
    /\ AtStep(f, "finishOp")
    /\ fo[f].pc = "cancel"
    /\ Cancel(fo[f].found, "finishOp")
    /\ fo' = [fo EXCEPT ![f].pc = "delete"]
    /\ UNCHANGED <<frames, nextOpID, cancelFuncs, rpc, lastErr, returned, rp,
                   invoked, respErr, writes, sendErr, destroyed, aborted,
                   abortFrame, parentCancelled, mu, hiFound,
                   fsVars>>

\* finishOp: delete(c.cancelFuncs, fuseID) for a non-forget op, and the
\* deferred Unlock.
FinishOpUnlock(f) ==
    /\ Alive
    /\ AtStep(f, "finishOp")
    /\ fo[f].pc \in {"delete", "unlock"}
    /\ cancelFuncs' = IF fo[f].pc = "delete"
                      THEN [cancelFuncs EXCEPT ![frames[f].unique] = NoEntry]
                      ELSE cancelFuncs
    /\ MuUnlock(Handler(f))
    /\ fo' = [fo EXCEPT ![f] = [pc |-> "lookup", found |-> NoEntry]]
    /\ rp' = [rp EXCEPT ![f] = @ + 1]
    /\ UNCHANGED <<frames, nextOpID, rpc, lastErr, returned, invoked,
                   respErr, writes, sendErr, destroyed, fired, cancelled,
                   aborted, abortFrame, parentCancelled, hiFound,
                   fsVars>>

\* The connection with handleInterrupt and finishOp taken statement by
\* statement, in place of the atomic HandleInterrupt and FinishOp.
NextMu ==
    \/ ReadMessage
    \/ ReadMessageError
    \/ BeginOp
    \/ Convert
    \/ HandleInterruptLookup
    \/ HandleInterruptCancel
    \/ \E f \in FrameIDs : Respond(f)
    \/ \E f \in FrameIDs : FinishOpLookup(f)
    \/ \E f \in FrameIDs : FinishOpCancel(f)
    \/ \E f \in FrameIDs : FinishOpUnlock(f)
    \/ \E f \in FrameIDs : WriteToKernel(f)
    \/ \E f \in FrameIDs : Destroy(f)
SpecMu == Init /\ [][NextMu]_vars

\* User code breaks the single-use rule: it invokes the reply closure of an
\* op again after the closure has returned.
RespondAgain(f) ==
    /\ Alive
    /\ f \in ReturnedSet
    /\ invoked[f] \in 1..(MaxInvocations - 1)
    /\ rp[f] = Done
    /\ \E e \in {"nil", "err"} : InvokeReply(f, e)
    /\ UNCHANGED <<frames, nextOpID, cancelFuncs, rpc, lastErr, returned,
                   writes, sendErr, destroyed, fired, cancelled, aborted,
                   abortFrame, parentCancelled, muVars,
                   fsVars>>

\* The connection with user code that may invoke a reply closure again.
NextReinvoke == Next \/ \E f \in FrameIDs : RespondAgain(f)
SpecReinvoke == Init /\ [][NextReinvoke]_vars

\* ------------------------------------------------- forgetfs, serving ops
\* findInodeByID: the panic it ends in, or "ok".
FindInodeByID(id) ==
    IF id \notin DOMAIN inodes THEN "UnknownInode"
    ELSE IF inodes[id].lookupCount <= 0 THEN "ForgottenInode"
    ELSE "ok"

\* checkInvariants, which the InvariantMutex runs when fs.mu is released.
CheckInvariants(ins, next) ==
    /\ \A id \in DOMAIN ins : ins[id].lookupCount >= 0
    /\ \A id \in DOMAIN ins : id < next

\* The switch of LookUpInode on op.Parent and op.Name.
ChildID(parent, name) ==
    IF parent = cannedID_Root /\ name = "foo" THEN cannedID_Foo
    ELSE IF parent = cannedID_Root /\ name = "bar" THEN cannedID_Bar
    ELSE NoInode

\* A panic in a forgetfs method ends the process.  (What the deferred
\* fuseutil.RespondToOp does while the panic unwinds is not modelled.)
FsPanic(f, resp, what) ==
    /\ aborted' = what
    /\ abortFrame' = f
    /\ fsResp' = [resp EXCEPT !.err = what]
    /\ UNCHANGED <<inodes, rp, invoked, respErr>>

\* The deferred fuseutil.RespondToOp(op, &err): the op is responded to
\* with err.
RespondToOp(f, resp, ins) ==
    /\ fsResp' = [resp EXCEPT !.after =
                     [id \in DOMAIN ins |-> ins[id].lookupCount]]
    /\ inodes' = ins
    /\ IF CheckInvariants(ins, nextInodeID)
       THEN /\ InvokeReply(f, IF resp.err = "nil" THEN "nil" ELSE "err")
            /\ UNCHANGED <<aborted, abortFrame>>
       ELSE /\ aborted' = "InvariantViolated"
            /\ abortFrame' = f
            /\ UNCHANGED <<rp, invoked, respErr>>

\* fsImpl.LookUpInode for the op of frame f, with op.Parent and op.Name.
LookUpInode(f, parent, name) ==
    /\ Alive
    /\ f \in ReturnedSet
    /\ frames[f].opcode = OpLookup
    /\ invoked[f] = 0
    /\ LET resp == [NoResp EXCEPT !.op = "LookUpInode", !.parent = parent,
                                  !.name = name, !.before = LookupCounts]
           childID == ChildID(parent, name)
       IN  IF FindInodeByID(parent) # "ok"
           THEN FsPanic(f, resp, FindInodeByID(parent))
           ELSE IF childID = NoInode
           THEN RespondToOp(f, [resp EXCEPT !.err = "ENOENT"], inodes)
           ELSE IF FindInodeByID(childID) # "ok"
           THEN FsPanic(f, resp, FindInodeByID(childID))
           ELSE RespondToOp(f,
                    [resp EXCEPT !.err = "nil", !.child = childID,
                        !.attributes = inodes[childID].attributes],
                    [inodes EXCEPT ![childID].lookupCount = @ + 1])
    /\ UNCHANGED <<frames, nextOpID, cancelFuncs, rpc, lastErr, returned,
                   writes, sendErr, destroyed, fired, cancelled,
                   parentCancelled, muVars, nextInodeID>>

\* fsImpl.GetInodeAttributes for the op of frame f, with op.Inode.
GetInodeAttributes(f, id) ==
    /\ Alive
    /\ f \in ReturnedSet
    /\ frames[f].opcode = OpLookup
    /\ invoked[f] = 0
    /\ LET resp == [NoResp EXCEPT !.op = "GetInodeAttributes",
                                  !.parent = id, !.before = LookupCounts]
       IN  IF FindInodeByID(id) # "ok"
           THEN FsPanic(f, resp, FindInodeByID(id))
           ELSE RespondToOp(f,
                    [resp EXCEPT !.err = "nil",
                        !.attributes = inodes[id].attributes],
                    inodes)
    /\ UNCHANGED <<frames, nextOpID, cancelFuncs, rpc, lastErr, returned,
                   writes, sendErr, destroyed, fired, cancelled,
                   parentCancelled, muVars, nextInodeID>>

\* The connection served by forgetfs; Respond stands for the methods of
\* the file system that are not modelled.
NextFS ==
    \/ Next
    \/ \E f \in FrameIDs, parent \in InodeIDs, name \in Names :
          LookUpInode(f, parent, name)
    \/ \E f \in FrameIDs, id \in InodeIDs : GetInodeAttributes(f, id)
SpecFS == Init /\ [][NextFS]_vars

\* The connection together with the owner of its parent context.
NextParent == Next \/ CancelParent
SpecParent == Init /\ [][NextParent]_vars

\* ======================================================================
\* Properties
\* ======================================================================
FramesRead == 1..Len(frames)

\* The reader has decided what to do with frame f: it is past beginOp and
\* Convert for it.
Decided(f) == f < cur \/ (f = cur /\ rpc \notin {"beginOp", "Convert"})

\* The reader is between two frames: blocked in ReadMessage or returned.
BetweenFrames == rpc \in {"idle", "read"}

\* C1: in a reply commit the registry entry is removed before the write to
\* the kernel begins; so a non-forget frame whose unique the kernel reused
\* only after the write of the previous reply had started always registers:
\* recordCancelFunc finds no entry for it, and every duplicate-insert abort
\* is on a frame whose unique the kernel reused early.
C1_RemoveBeforeWrite ==
    /\ \A f \in FramesRead :
          (frames[f].opcode # OpForget /\ writes[f] # <<>>)
              => cancelFuncs[frames[f].unique] # f
    /\ (rpc = "beginOp" /\ frames[cur].opcode # OpForget
            /\ ~frames[cur].early)
          => ~HasCancelFunc(frames[cur].unique)
    /\ aborted = "AlreadyHaveCancelFunc" => frames[abortFrame].early

\* A frame reusing the unique of a reply whose write has just started has
\* registered while the earlier closure is still running.
C1_Witness ==
    /\ Len(frames) = 2
    /\ frames[1].opcode = OpLookup /\ frames[2].opcode = OpLookup
    /\ frames[1].unique = frames[2].unique
    /\ ~frames[2].early
    /\ AtStep(1, "Destroy")
    /\ cancelFuncs[frames[2].unique] = 2

\* Frame f is one ReadOp hands to the caller: the reader has decided on it,
\* it converted, and it is neither a statfs nor an interrupt.
Surfaces(f) ==
    /\ Decided(f)
    /\ frames[f].convertible
    /\ frames[f].opcode \notin {OpStatFS, OpInterrupt}

\* C2: the ops ReadOp returns are, in read order, exactly the frames that
\* converted to an op other than the internal statfs and interrupt ops,
\* whatever the reply closures of earlier ops are doing meanwhile.
C2_DeliveredInReadOrder ==
    returned = SelectSeq([i \in FramesRead |-> i], Surfaces)

\* Two ops returned in read order while the reply of the first is running.
C2_Witness ==
    /\ returned = <<1, 2>>
    /\ Running(1)

\* The reply closure of frame f has run to its end.
Replied(f) == rp[f] = Done

\* Convert has failed on no frame so far.
AllConverted == \A f \in FramesRead : frames[f].convertible

\* C3: once the reply closure of a returned op has run, the registry holds
\* no entry recorded for that op; and when every frame converted, the
\* reader is between frames and the reply closure of every returned op has
\* run, the registry is empty.
C3_RegistryPairing ==
    /\ \A f \in ReturnedSet :
          Replied(f) => cancelFuncs[frames[f].unique] # f
    /\ (AllConverted /\ BetweenFrames /\ \A f \in ReturnedSet : Replied(f))
          => \A u \in Uniques : ~HasCancelFunc(u)

\* C4: when every frame converted and the reader is between frames, every
\* registry entry belongs to an op that was returned to the caller and
\* whose reply closure has not run to its end.
C4_EntriesAreLiveOps ==
    (AllConverted /\ BetweenFrames) =>
        \A u \in Uniques :
            HasCancelFunc(u) =>
                /\ cancelFuncs[u] \in ReturnedSet
                /\ ~Replied(cancelFuncs[u])

\* The core has nothing left to do for frame f: its reply closure has run,
\* or it was an interrupt, which has no reply, and handleInterrupt is over.
\* (A frame whose Convert failed is left out.)
Settled(f) ==
    \/ Replied(f)
    \/ /\ frames[f].opcode = OpInterrupt
       /\ frames[f].convertible
       /\ f < cur \/ (f = cur /\ BetweenFrames)

\* C5: every frame read is destroyed exactly once, and not before the
\* write of its reply was attempted.
C5_DestroyedExactlyOnce ==
    \A f \in FramesRead :
        /\ destroyed[f] <= 1
        /\ destroyed[f] = 1 => writes[f] # <<>>
        /\ Settled(f) => destroyed[f] = 1

\* beginOp has recorded an entry for frame f; it is still in the registry,
\* or it has been removed.
Registered(f) ==
    /\ frames[f].opcode # OpForget
    /\ f < cur \/ (f = cur /\ rpc # "beginOp")
EntryGone(f) == Registered(f) /\ cancelFuncs[frames[f].unique] # f

Fired(f) == fired[f].finishOp + fired[f].handleInterrupt

C7_ForgetStep ==
    /\ (rpc = "beginOp" /\ frames[cur].opcode = OpForget /\ rpc' # rpc)
          => (cancelFuncs' = cancelFuncs /\ aborted' = "none")
    /\ \A f \in FramesRead :
          (frames[f].opcode = OpForget /\ rp'[f] # rp[f])
              => (cancelFuncs' = cancelFuncs /\ aborted' = "none")

\* A duplicate-insert abort is on a non-forget frame, against the entry of
\* an earlier non-forget frame; and no reply commit misses its entry.
C7_NoAbortByForget ==
    /\ aborted # "UnknownRequestID"
    /\ aborted = "AlreadyHaveCancelFunc" =>
          /\ frames[abortFrame].opcode # OpForget
          /\ cancelFuncs[frames[abortFrame].unique] \in 1..(abortFrame - 1)
          /\ frames[cancelFuncs[frames[abortFrame].unique]].opcode # OpForget

\* C7: a forget frame never inserts a registry entry and its reply closure
\* removes none; so forget frames sharing a unique with a non-forget frame,
\* before or after it, cause no duplicate-insert abort, and the reply commit
\* of the non-forget op still finds its entry.
C7_ForgetExempt == [][C7_ForgetStep]_vars /\ []C7_NoAbortByForget

\* A forget frame and then a lookup frame with the same unique: both reply
\* closures have run and nothing aborted.
C7_Witness ==
    /\ Len(frames) = 2
    /\ frames[1].opcode = OpForget /\ frames[2].opcode = OpLookup
    /\ frames[1].unique = frames[2].unique
    /\ Replied(1) /\ Replied(2)
    /\ fired[2].finishOp = 1
    /\ aborted = "none"

\* The op a live interrupt targets: returned to the caller, not a forget,
\* and its reply closure has not run to its end.
LiveOps(u) ==
    {g \in ReturnedSet :
        frames[g].unique = u /\ frames[g].opcode # OpForget /\ ~Replied(g)}

\* The step of ReadOp that handles an interrupt whose target is live
\* cancels the target's scope and goes on to read the next frame; it
\* returns nothing to the caller, invokes no reply closure, writes nothing.
C8_InterruptStep ==
    (rpc = "handleInterrupt" /\ rpc' # rpc
        /\ LiveOps(frames[cur].target) # {})
    => /\ LiveOps(frames[cur].target) \subseteq cancelled'
       /\ rpc' = "read"
       /\ aborted' = "none"
       /\ UNCHANGED <<frames, returned, rp, invoked, writes, cancelFuncs>>

\* No interrupt frame is ever returned to the caller or replied to.
C8_InterruptNeverSurfaces ==
    \A f \in FramesRead :
        (frames[f].opcode = OpInterrupt /\ frames[f].convertible)
            => (f \notin ReturnedSet /\ invoked[f] = 0 /\ writes[f] = <<>>)

\* C8: an interrupt frame targeting a live unique is never returned by
\* ReadOp, cancels the scope of the targeted op before ReadOp reads the
\* next frame, and has no reply written for it.
C8_InterruptCancels ==
    [][C8_InterruptStep]_vars /\ []C8_InterruptNeverSurfaces

\* A lookup was returned and not replied to; the interrupt targeting it has
\* been handled and its scope is cancelled.
C8_Witness ==
    /\ Len(frames) = 2
    /\ frames[1].opcode = OpLookup /\ frames[2].opcode = OpInterrupt
    /\ frames[2].target = frames[1].unique
    /\ returned = <<1>> /\ invoked[1] = 0
    /\ rpc = "read"
    /\ 1 \in cancelled

\* The step of ReadOp that handles an interrupt whose target has no
\* registry entry changes nothing but the reader's position.
C9_LateInterruptStep ==
    (rpc = "handleInterrupt" /\ rpc' # rpc
        /\ ~HasCancelFunc(frames[cur].target))
    => /\ rpc' = "read"
       /\ aborted' = "none"
       /\ UNCHANGED <<frames, nextOpID, cancelFuncs, lastErr, returned, rp,
                      invoked, respErr, writes, sendErr, destroyed, fired,
                      cancelled, abortFrame>>

\* C9: an interrupt whose target has no registry entry (its reply was
\* committed) is a silent no-op: no abort, no trigger fired, no scope
\* cancelled, no reply invoked or written, nothing returned, and the reader
\* goes on to read the next frame.
C9_LateInterruptSilent == [][C9_LateInterruptStep]_vars

\* A lookup was replied to, and the interrupt that targets it was handled
\* afterwards without firing its trigger again.
C9_Witness ==
    /\ Len(frames) = 2
    /\ frames[1].opcode = OpLookup /\ frames[2].opcode = OpInterrupt
    /\ frames[2].target = frames[1].unique
    /\ frames[2].unique # frames[1].unique
    /\ Replied(1)
    /\ rpc = "read"
    /\ fired[1].handleInterrupt = 0
    /\ aborted = "none"

\* The frames that converted to a statfs op.
StatFSFrames ==
    {f \in FramesRead : frames[f].opcode = OpStatFS /\ frames[f].convertible}

\* C10: a statfs frame is never returned; once ReadOp has gone past it,
\* its reply closure was invoked once, with no error, and WriteToKernel was
\* called exactly once for it, so before any later op is returned; and from
\* that write until the next frame is read the registry holds no entry for
\* its unique.

C10_StatFSAutoReply ==
    \A f \in StatFSFrames :
        /\ f \notin ReturnedSet
        /\ Len(writes[f]) <= 1
        /\ (f < cur \/ (f = cur /\ BetweenFrames))
              => /\ Len(writes[f]) = 1
                 /\ invoked[f] = 1
                 /\ respErr[f] = "nil"
                 /\ Replied(f)
        /\ \A g \in ReturnedSet : g > f => Len(writes[f]) = 1
        /\ (f = cur /\ (writes[f] # <<>> \/ BetweenFrames))
              => ~HasCancelFunc(frames[f].unique)

\* A statfs frame was answered inside ReadOp, which then returned the
\* lookup that followed it.
C10_Witness ==
    /\ Len(frames) = 2
    /\ frames[1].opcode = OpStatFS /\ frames[2].opcode = OpLookup
    /\ returned = <<2>>
    /\ Len(writes[1]) = 1
    /\ ~HasCancelFunc(frames[1].unique)

\* Convert has failed on frame f and ReadOp has returned its error.
ConvertFailed(f) == Decided(f) /\ ~frames[f].convertible

\* What C11 says of the failed frame itself: ReadOp returned the wrapped
\* Convert error, the frame's op was not returned, its reply closure was
\* not invoked and no reply was written for it.
ConvertErrorSurfaced ==
    \A f \in FramesRead :
        ConvertFailed(f) =>
            /\ f \notin ReturnedSet
            /\ invoked[f] = 0
            /\ writes[f] = <<>>
            /\ (f = cur /\ rpc = "idle" /\ lastErr \notin {"EOF", "EIO"})
                  => lastErr = "fuseops.Convert"

\* C11: when Convert fails on a frame, ReadOp returns the wrapped Convert
\* error without invoking the frame's reply closure and without writing a
\* reply; and the frames read afterwards are processed without abort
\* whatever their unique, the failed frame's unique included: no
\* duplicate-insert abort is against the entry of a frame whose Convert
\* failed.
C11_ConvertErrorSkipsFrame ==
    /\ ConvertErrorSurfaced
    /\ aborted = "AlreadyHaveCancelFunc" =>
          frames[cancelFuncs[frames[abortFrame].unique]].convertible

\* The write of frame f's reply was attempted and the shim reported an
\* error.
WriteFailed(f) == writes[f] # <<>> /\ writes[f][Len(writes[f])] = "fail"

\* C12: when the kernel write fails during the reply commit of an op, the
\* op's registry entry has been removed and its scope cancelled, the write
\* is not retried, the closure returns the wrapped write error to its
\* invoker, and the frame is destroyed when the closure returns.
C12_WriteFailure ==
    \A f \in FramesRead :
        WriteFailed(f) =>
            /\ Len(writes[f]) = 1
            /\ ~AtStep(f, "WriteToKernel")
            /\ sendErr[f] = "WriteToKernel"
            /\ frames[f].opcode # OpForget
                  => (cancelFuncs[frames[f].unique] # f /\ f \in cancelled)
            /\ AtStep(f, "Destroy") \/ Replied(f)
            /\ Replied(f) => destroyed[f] = 1

\* The reply closure of a lookup has returned after a failed write.
C12_Witness ==
    \E f \in FramesRead :
        /\ frames[f].opcode = OpLookup
        /\ writes[f] = <<"fail">>
        /\ Replied(f)
        /\ destroyed[f] = 1
        /\ f \in cancelled
        /\ sendErr[f] = "WriteToKernel"

\* C13: once the connection's parent scope is cancelled, the scope of
\* every op that was live at that moment is cancelled and every op read
\* afterwards starts with a cancelled scope; and the scope of a forget op
\* is the parent scope itself: it is cancelled exactly if the parent is.
C13_ParentCancels ==
    /\ parentCancelled => \A f \in FramesRead : Begun(f) => f \in cancelled
    /\ \A f \in FramesRead :
          (Begun(f) /\ frames[f].opcode = OpForget)
              => (f \in cancelled <=> parentCancelled)

\* The parent was cancelled while a lookup was with user code, no trigger
\* of its own fired; the forget op read next has a cancelled scope too.
C13_Witness ==
    /\ parentCancelled
    /\ Len(frames) = 2
    /\ frames[1].opcode = OpLookup /\ frames[2].opcode = OpForget
    /\ returned = <<1, 2>>
    /\ invoked[1] = 0 /\ Fired(1) = 0
    /\ cancelled = {1, 2}

\* C14: when an interrupt targeting a returned non-forget op is processed
\* before the op's reply is committed, the op's scope is cancelled from
\* then on, so user code sees it cancelled before it replies; the entry is
\* still in the registry when the reply closure is invoked, the reply
\* commit does not abort, and exactly one reply is written.
C14_InterruptThenReply ==
    \A f \in ReturnedSet :
        (frames[f].opcode # OpForget /\ fired[f].handleInterrupt >= 1) =>
            /\ f \in cancelled
            /\ invoked[f] = 0 => cancelFuncs[frames[f].unique] = f
            /\ ~(aborted = "UnknownRequestID" /\ abortFrame = f)
            /\ Len(writes[f]) <= 1
            /\ Replied(f) => Len(writes[f]) = 1

\* A lookup, then the interrupt that targets it under a unique of its own;
\* the interrupt fired the lookup's trigger, and the reply commit that
\* followed wrote one reply.
C14_Witness ==
    /\ Len(frames) = 2
    /\ frames[1].opcode = OpLookup /\ frames[2].opcode = OpInterrupt
    /\ frames[2].target = frames[1].unique
    /\ frames[2].unique # frames[1].unique
    /\ fired[1] = [finishOp |-> 1, handleInterrupt |-> 1]
    /\ writes[1] = <<"ok">>
    /\ Replied(1)
    /\ aborted = "none"

\* ReadOp has handled interrupt frame g.
InterruptHandled(g) ==
    /\ frames[g].opcode = OpInterrupt
    /\ frames[g].convertible
    /\ g < cur \/ (g = cur /\ BetweenFrames)

\* An interrupt targeting frame f's unique was handled after beginOp had
\* recorded f's entry.
InterruptedSinceBegun(f) ==
    \E g \in FramesRead :
        g >= f /\ InterruptHandled(g) /\ frames[g].target = frames[f].unique

\* C15: while the parent scope is not cancelled, the scope of a non-forget
\* op is cancelled exactly if its reply commit has removed its registry
\* entry (whatever the outcome of the reply) or an interrupt targeting its
\* unique was handled while the entry was present; so an interrupt
\* targeting one unique never cancels the scope of an op with another.
C15_CancelledIff ==
    ~parentCancelled =>
        \A f \in FramesRead :
            Registered(f) =>
                (f \in cancelled <=>
                    (EntryGone(f) \/ InterruptedSinceBegun(f)))

\* An interrupt with unique 2 targeting the lookup with unique 1 cancelled
\* the lookup's scope and not the scope recorded under its own unique.
C15_Witness ==
    /\ ~parentCancelled
    /\ Len(frames) = 2
    /\ frames[1].opcode = OpLookup /\ frames[1].unique = 1
    /\ frames[2].opcode = OpInterrupt /\ frames[2].unique = 2
    /\ frames[2].target = 1
    /\ InterruptHandled(2)
    /\ cancelFuncs = <<1, 2>>
    /\ cancelled = {1}

\* beginOp has recorded an entry for frame f and no finishOp has removed
\* it.
LiveEntry(f) == Registered(f) /\ fired[f].finishOp = 0

\* The steps at which the registry is consulted.  The reader goes from
\* beginOp to Convert for a non-forget frame only if its unique had no
\* entry, and a reply closure of a non-forget op goes past finishOp only if
\* its unique had one; a step that aborts happens in recordCancelFunc or in
\* finishOp, and returns no op, invokes no closure, writes nothing and
\* leaves the registry as it is.
C16_RegistryStep ==
    /\ (rpc = "beginOp" /\ rpc' = "Convert"
            /\ frames[cur].opcode # OpForget)
          => /\ ~HasCancelFunc(frames[cur].unique)
             /\ cancelFuncs'[frames[cur].unique] = cur
    /\ \A f \in FramesRead :
          (AtStep(f, "finishOp") /\ rp'[f] # rp[f]
              /\ frames[f].opcode # OpForget)
            => HasCancelFunc(frames[f].unique)
    /\ (aborted = "none" /\ aborted' # "none")
          => /\ \/ /\ aborted' = "AlreadyHaveCancelFunc"
                   /\ rpc = "beginOp" /\ abortFrame' = cur
                   /\ HasCancelFunc(frames[cur].unique)
                \/ /\ aborted' = "UnknownRequestID"
                   /\ AtStep(abortFrame', "finishOp")
                   /\ ~HasCancelFunc(frames[abortFrame'].unique)
             /\ frames[abortFrame'].opcode # OpForget
             /\ UNCHANGED <<rpc, lastErr, returned, cancelFuncs, invoked,
                            writes, fired>>

\* What the aborts protect: the registry holds the entry of every frame
\* whose entry is live, so no two live entries share a unique; the frame
\* of a duplicate-insert abort was not returned, and the closure of a
\* missing-entry abort wrote nothing in the invocation that aborted.
C16_RegistryState ==
    /\ \A f \in FramesRead :
          LiveEntry(f) => cancelFuncs[frames[f].unique] = f
    /\ \A f, g \in FramesRead :
          (f # g /\ LiveEntry(f) /\ LiveEntry(g))
              => frames[f].unique # frames[g].unique
    /\ aborted = "AlreadyHaveCancelFunc"
          => (rpc = "beginOp" /\ abortFrame = cur
                /\ cur \notin ReturnedSet /\ invoked[cur] = 0)
    /\ aborted = "UnknownRequestID"
          => Len(writes[abortFrame]) < invoked[abortFrame]

\* C16: violations of the registry discipline abort with no partial
\* effect: a non-forget frame whose unique already has an entry aborts
\* ReadOp in recordCancelFunc, before Convert and before any op is
\* returned, so no two live entries share a unique; and a reply closure
\* invoked for a non-forget op whose unique has no entry (a second
\* invocation) aborts in finishOp before anything is written.
C16_AbortsBeforeEffect == [][C16_RegistryStep]_vars /\ []C16_RegistryState

\* The reply closure of a lookup was invoked a second time and aborted in
\* finishOp; the one reply written is that of the first invocation.
C16_Witness ==
    \E f \in FramesRead :
        /\ frames[f].opcode = OpLookup
        /\ invoked[f] = 2
        /\ aborted = "UnknownRequestID" /\ abortFrame = f
        /\ Len(writes[f]) = 1

\* A step in which an interrupt fires the trigger of frame f is taken while
\* f's entry is in the registry.
C17_InterruptFiresStep ==
    \A f \in FrameIDs :
        fired'[f].handleInterrupt # fired[f].handleInterrupt
            => (f \in FramesRead /\ cancelFuncs[frames[f].unique] = f)

\* At most one thread is inside the code under c.mu; a thread between its
\* lookup and its unlock holds the mutex; the entry handleInterrupt found
\* is in the registry until handleInterrupt has called it; and no reply
\* commit misses its entry.
C17_MutexState ==
    /\ Cardinality(mu) <= 1
    /\ rpc = "handleInterrupt.cancel" <=> Reader \in mu
    /\ \A f \in FrameIDs : fo[f].pc # "lookup" <=> Handler(f) \in mu
    /\ hiFound # NoEntry => cancelFuncs[frames[hiFound].unique] = hiFound
    /\ aborted # "UnknownRequestID"

\* C17: handleInterrupt for a unique and the reply commit for the same
\* unique exclude each other under the mutex: the interrupt fires the
\* trigger while the entry is present and the commit removes it afterwards,
\* or the commit removes the entry first and the interrupt finds nothing;
\* no interleaving aborts, and no interrupt fires a trigger whose entry has
\* been removed.
C17_InterruptVsCommit ==
    [][C17_InterruptFiresStep]_vars /\ []C17_MutexState

\* handleInterrupt has found the entry of frame 1 and holds the mutex,
\* while the reply closure of frame 1 waits to enter finishOp.
C17_Witness ==
    /\ mu = {Reader}
    /\ rpc = "handleInterrupt.cancel"
    /\ hiFound = 1
    /\ AtStep(1, "finishOp")
    /\ fo[1].pc = "lookup"
    /\ fired[1].handleInterrupt = 0

\* Frame f is one whose reply closure is never invoked: an interrupt, or a
\* frame whose Convert fails.
NeverReplied(f) == frames[f].opcode = OpInterrupt \/ ~frames[f].convertible

\* The entry under unique u was recorded for a frame that is never replied
\* to.
LeakedEntry(u) == HasCancelFunc(u) /\ NeverReplied(cancelFuncs[u])

\* An entry leaves the registry only in the finishOp of the reply closure
\* of the frame it was recorded for; ReadOp goes from beginOp to Convert
\* for a non-forget frame with the frame's entry recorded; and when the
\* unique of a non-forget frame has a leaked entry, the only step ReadOp
\* can take is the duplicate-insert abort.
C18_RegistryStep ==
    /\ \A u \in Uniques :
          (HasCancelFunc(u) /\ cancelFuncs'[u] # cancelFuncs[u])
              => /\ AtStep(cancelFuncs[u], "finishOp")
                 /\ rp'[cancelFuncs[u]] # rp[cancelFuncs[u]]
                 /\ cancelFuncs'[u] = NoEntry
    /\ (rpc = "beginOp" /\ rpc' = "Convert"
            /\ frames[cur].opcode # OpForget)
          => cancelFuncs'[frames[cur].unique] = cur
    /\ (rpc = "beginOp" /\ frames[cur].opcode # OpForget
            /\ LeakedEntry(frames[cur].unique))
          => /\ rpc' = rpc
             /\ aborted' # aborted
                   => (aborted' = "AlreadyHaveCancelFunc"
                          /\ abortFrame' = cur)

\* The entry recorded for an interrupt frame, under its own unique, or for
\* a frame whose Convert failed is in the registry in every later state.
C18_LeakedEntriesStay ==
    \A f \in FramesRead :
        (Registered(f) /\ NeverReplied(f))
            => cancelFuncs[frames[f].unique] = f

C19_ReadErrorStep ==
    (BetweenFrames /\ frames' = frames
        /\ (lastErr' # lastErr \/ rpc' # rpc))
    => /\ lastErr' \in ReadMessageErrs
       /\ rpc' = "idle"
       /\ UNCHANGED <<nextOpID, cancelFuncs, returned, rp, invoked, respErr,
                      writes, sendErr, destroyed, fired, cancelled, aborted,
                      abortFrame>>

\* C19: when ReadMessage returns an error (EOF or an I/O error), ReadOp
\* returns that error unwrapped and changes nothing: nextOpID is not
\* advanced, no registry entry is inserted or removed, no trigger is fired
\* and no reply is written.
C19_ReadErrorUnwrapped ==
    /\ [][C19_ReadErrorStep]_vars
    /\ [](lastErr \in ReadMessageErrs => rpc = "idle")

\* ReadOp returned a read error while the op of the first frame was with
\* user code: its entry is in the registry and one op ID was allocated.
C19_Witness ==
    /\ lastErr \in ReadMessageErrs
    /\ returned = <<1>>
    /\ invoked[1] = 0
    /\ cancelFuncs[frames[1].unique] = 1
    /\ nextOpID = 1

\* The LookUpInode call recorded in r had a live parent: an inode that
\* exists and has a positive lookup count.
ParentLive(r) ==
    r.parent \in DOMAIN r.before /\ r.before[r.parent] > 0

\* C20: on the file system NewFileSystem makes, LookUpInode for "foo" or
\* "bar" in the root responds without error and without panic with the
\* child's ID and attributes and has raised the child's lookup count by
\* exactly one; LookUpInode for any other parent and name, the parent
\* live, responds ENOENT and changes no lookup count; and in every state
\* all lookup counts are at least 0 and every inode ID is below
\* nextInodeID.
C20_LookUpInode ==
    /\ LET r == fsResp IN
       (r.op = "LookUpInode" /\ ParentLive(r)) =>
           IF r.parent = cannedID_Root /\ r.name \in {"foo", "bar"}
           THEN /\ r.err = "nil"
                /\ r.child = ChildID(r.parent, r.name)
                /\ r.attributes = NewFileSystem[r.child].attributes
                /\ r.after = [r.before EXCEPT ![r.child] = @ + 1]
           ELSE /\ r.err = "ENOENT"
                /\ r.after = r.before
    /\ \A id \in DOMAIN inodes :
          inodes[id].lookupCount >= 0 /\ id < nextInodeID

====
